---- MODULE Spec2Model ----
(***************************************************************************)
(* State-machine model of src/src/components/TodoApp.tsx: the todo store,  *)
(* the draft (input) state, the key handler, the completion propagation    *)
(* run by toggleTodo and the display ordering computed on every render.    *)
(*                                                                         *)
(* Arrays are 1-based here (index i of the source is i+1), so the -1 that  *)
(* findIndex returns for "not found" is 0.  A text is a sequence of        *)
(* characters.                                                             *)
(***************************************************************************)
EXTENDS Integers, Sequences, FiniteSets, TLC

\* ---- bounds of the model ------------------------------------------------
\* most items in the store under Spec (all handlers, all inputs)
MaxTodos == 1
\* most items in the store under SpecTree (commits and toggles)
MaxTree == 4
\* most items of a store drawn by SpecSort
MaxLen == 4
\* longest text the input field is given
MaxText == 2

\* ---- data model ---------------------------------------------------------
\* type Priority, line 3
Priority == {"emergency", "urgent", "normal", "low"}

\* the depths Tab / Shift+Tab / Backspace can produce from 0 (lines 40, 42, 57)
Depths == 0..2

\* characters typed into the input: a blank and a letter
Chars == {" ", "a"}

\* every value the input element can hand to onChange, up to MaxText characters
Texts == UNION {[1..n -> Chars] : n \in 0..MaxText}

\* String.prototype.trim: drop leading blanks ...
RECURSIVE trimStart(_)
trimStart(s) == IF s # <<>> /\ Head(s) = " " THEN trimStart(Tail(s)) ELSE s

\* ... and trailing blanks
RECURSIVE trimEnd(_)
trimEnd(s) ==
  IF s # <<>> /\ s[Len(s)] = " " THEN trimEnd(SubSeq(s, 1, Len(s) - 1)) ELSE s

trim(s) == trimEnd(trimStart(s))

\* ---- state --------------------------------------------------------------
VARIABLES
  todos,          \* useState<Todo[]>([]), line 16
  inputValue,     \* line 17
  inputDepth,     \* line 18
  inputPriority,  \* line 19
  clock,          \* the latest value Date.now() returned, line 67
  engine,         \* which Array.prototype.sort the page runs on
  sortedTodos,    \* the view computed by the last render, line 188
  before,         \* history: the store when the last handler started
  last,           \* history: the last handler, its id argument, its outcome
  keyed           \* history kept under Spec: the last event and the draft it met

vars ==
  <<todos, inputValue, inputDepth, inputPriority, clock, engine, sortedTodos,
    before, last, keyed>>

\* ---- completion propagation --------------------------------------------
\* todos.findIndex(todo => todo.id === id), line 81; 0 when no item has the id
findIndex(todoList, id) ==
  IF \E i \in 1..Len(todoList) : todoList[i].id = id
  THEN CHOOSE i \in 1..Len(todoList) :
         /\ todoList[i].id = id
         /\ \A j \in 1..(i - 1) : todoList[j].id # id
  ELSE 0

\* the for loop of getDirectChildren, lines 135-143: the indices pushed
RECURSIVE directChildrenLoop(_, _, _)
directChildrenLoop(todoList, parentIndex, i) ==
  IF i > Len(todoList) THEN <<>>
  ELSE IF todoList[i].depth <= todoList[parentIndex].depth THEN <<>>
  ELSE IF todoList[i].depth = todoList[parentIndex].depth + 1
       THEN <<i>> \o directChildrenLoop(todoList, parentIndex, i + 1)
       ELSE directChildrenLoop(todoList, parentIndex, i + 1)

\* positions of the direct children of the item at parentIndex
directChildIndices(todoList, parentIndex) ==
  directChildrenLoop(todoList, parentIndex, parentIndex + 1)

\* getDirectChildren, lines 131-146: the children themselves
getDirectChildren(todoList, parentIndex) ==
  LET idx == directChildIndices(todoList, parentIndex)
  IN  [k \in 1..Len(idx) |-> todoList[idx[k]]]

\* a variant of the loop that spreads the parent instead of the child into the
\* new item, used to show that the spread of line 103 decides C18
RECURSIVE childrenLoopSpreadsParent(_, _, _, _)
childrenLoopSpreadsParent(todoList, parentIndex, i, completed) ==
  IF i > Len(todoList) THEN todoList
  ELSE IF todoList[i].depth <= todoList[parentIndex].depth THEN todoList
  ELSE IF todoList[i].depth = todoList[parentIndex].depth + 1
       THEN childrenLoopSpreadsParent(
              [todoList EXCEPT
                 ![i] = [todoList[parentIndex] EXCEPT !.completed = completed]],
              parentIndex, i + 1, completed)
       ELSE childrenLoopSpreadsParent(todoList, parentIndex, i + 1, completed)

\* the for loop of updateChildrenCompletion, lines 97-108
RECURSIVE childrenLoop(_, _, _, _)
childrenLoop(todoList, parentIndex, i, completed) ==
  IF i > Len(todoList) THEN todoList
  ELSE IF todoList[i].depth <= todoList[parentIndex].depth THEN todoList
  ELSE IF todoList[i].depth = todoList[parentIndex].depth + 1
       THEN LET set == [todoList EXCEPT ![i].completed = completed]
                rec == IF completed
                       THEN childrenLoop(set, i, i + 1, completed)
                       ELSE set
            IN  childrenLoop(rec, parentIndex, i + 1, completed)
       ELSE childrenLoop(todoList, parentIndex, i + 1, completed)

\* updateChildrenCompletion, lines 94-109
updateChildrenCompletion(todoList, parentIndex, completed) ==
  childrenLoop(todoList, parentIndex, parentIndex + 1, completed)

\* a variant of the iteration without the children.length > 0 test of line
\* 117, used to show that the test decides C16
parentStepNoLengthTest(todoList, i) ==
  IF todoList[i].depth < 2
  THEN LET children == getDirectChildren(todoList, i)
           allChildrenCompleted ==
             \A k \in 1..Len(children) : children[k].completed
           anyChildUncompleted ==
             \E k \in 1..Len(children) : ~children[k].completed
       IN  IF allChildrenCompleted /\ ~todoList[i].completed
           THEN [todoList EXCEPT ![i].completed = TRUE]
           ELSE IF anyChildUncompleted /\ todoList[i].completed
                THEN [todoList EXCEPT ![i].completed = FALSE]
                ELSE todoList
  ELSE todoList

\* one iteration of the loop of updateParentCompletion, lines 113-127
parentStep(todoList, i) ==
  IF todoList[i].depth < 2
  THEN LET children == getDirectChildren(todoList, i)
           allChildrenCompleted ==
             \A k \in 1..Len(children) : children[k].completed
           anyChildUncompleted ==
             \E k \in 1..Len(children) : ~children[k].completed
       IN  IF Len(children) > 0
           THEN IF allChildrenCompleted /\ ~todoList[i].completed
                THEN [todoList EXCEPT ![i].completed = TRUE]
                ELSE IF anyChildUncompleted /\ todoList[i].completed
                     THEN [todoList EXCEPT ![i].completed = FALSE]
                     ELSE todoList
           ELSE todoList
  ELSE todoList

\* the loop of updateParentCompletion, from index i down to the first item
RECURSIVE parentLoop(_, _)
parentLoop(todoList, i) ==
  IF i < 1 THEN todoList ELSE parentLoop(parentStep(todoList, i), i - 1)

\* a top-down variant of the pass (index 1 first), used to show that the
\* order of the pass decides C2
RECURSIVE parentLoopTopDown(_, _)
parentLoopTopDown(todoList, i) ==
  IF i > Len(todoList) THEN todoList
  ELSE parentLoopTopDown(parentStep(todoList, i), i + 1)

updateParentCompletionTopDown(todoList) == parentLoopTopDown(todoList, 1)

\* updateParentCompletion, lines 111-129
updateParentCompletion(todoList) == parentLoop(todoList, Len(todoList))

\* the store toggleTodo hands to setTodos, lines 80-91, for an id that is found
toggled(todoList, id) ==
  LET todoIndex == findIndex(todoList, id)
      updated == [todoList EXCEPT ![todoIndex].completed = ~todoList[todoIndex].completed]
      cascaded == IF updated[todoIndex].completed
                  THEN updateChildrenCompletion(updated, todoIndex, TRUE)
                  ELSE updated
  IN  updateParentCompletion(cascaded)

\* ---- display ordering ---------------------------------------------------
\* priorityOrder, line 191
priorityOrder == [emergency |-> 0, urgent |-> 1, normal |-> 2, low |-> 3]

\* a variant of the comparator that answers "a first" for differing depths,
\* used to show that the comparator decides C10
compareDepthFirst(a, b) ==
  IF a.depth # b.depth THEN -1
  ELSE priorityOrder[a.priority] - priorityOrder[b.priority]

\* the comparator handed to sort, lines 188-193
compare(a, b) ==
  IF a.depth # b.depth THEN 0
  ELSE priorityOrder[a.priority] - priorityOrder[b.priority]

\* The comparator is not a consistent one (0 for differing depths is not
\* transitive), so the order Array.prototype.sort produces is left to the
\* engine.  Two stable sorts browsers ship are modelled: the insertion
\* sort SpiderMonkey uses for short arrays, and V8's TimSort, which for
\* fewer than 64 elements is one run detection followed by a binary
\* insertion sort.
Engines == {"InsertionSort", "TimSort"}

\* a variant of the inner loop that shifts but never stores item, used to
\* show that the sort decides C19
RECURSIVE insertLoopNoStore(_, _, _)
insertLoopNoStore(arr, item, j) ==
  IF j < 1 \/ compare(arr[j], item) <= 0
  THEN arr
  ELSE insertLoopNoStore([arr EXCEPT ![j + 1] = arr[j]], item, j - 1)

\* insertion sort, inner loop: shift the items greater than item one place
\* to the right, starting at j, and drop item into the gap
RECURSIVE insertLoop(_, _, _)
insertLoop(arr, item, j) ==
  IF j < 1 \/ compare(arr[j], item) <= 0
  THEN [arr EXCEPT ![j + 1] = item]
  ELSE insertLoop([arr EXCEPT ![j + 1] = arr[j]], item, j - 1)

\* insertion sort, outer loop, from item i to the last
RECURSIVE insertionLoop(_, _)
insertionLoop(arr, i) ==
  IF i > Len(arr) THEN arr
  ELSE insertionLoop(insertLoop(arr, arr[i], i - 1), i + 1)

insertionSort(arr) == insertionLoop(arr, 2)

\* TimSort, CountAndMakeRun: the last index of the run that starts at 1
RECURSIVE countRun(_, _, _)
countRun(arr, idx, isDescending) ==
  IF idx > Len(arr) THEN idx - 1
  ELSE LET order == compare(arr[idx], arr[idx - 1])
       IN  IF (isDescending /\ order >= 0) \/ (~isDescending /\ order < 0)
           THEN idx - 1
           ELSE countRun(arr, idx + 1, isDescending)

\* ReverseRange over 1..n
reverseRange(arr, n) ==
  [k \in 1..Len(arr) |-> IF k <= n THEN arr[n + 1 - k] ELSE arr[k]]

\* TimSort, BinaryInsertionSort: the binary search for pivot's place
RECURSIVE binarySearch(_, _, _, _)
binarySearch(arr, pivot, left, right) ==
  IF left >= right THEN left
  ELSE LET mid == left + ((right - left) \div 2)
       IN  IF compare(pivot, arr[mid]) < 0
           THEN binarySearch(arr, pivot, left, mid)
           ELSE binarySearch(arr, pivot, mid + 1, right)

\* move the item at position start to position left, shifting the items between
moveTo(arr, start, left) ==
  [k \in 1..Len(arr) |->
     IF k = left THEN arr[start]
     ELSE IF k > left /\ k <= start THEN arr[k - 1]
     ELSE arr[k]]

\* TimSort, BinaryInsertionSort: the loop over start
RECURSIVE binaryInsertionLoop(_, _)
binaryInsertionLoop(arr, start) ==
  IF start > Len(arr) THEN arr
  ELSE binaryInsertionLoop(
         moveTo(arr, start, binarySearch(arr, arr[start], 1, start)), start + 1)

\* TimSort on fewer than 64 elements (every store of the model)
timSort(arr) ==
  IF Len(arr) < 2 THEN arr
  ELSE LET isDescending == compare(arr[2], arr[1]) < 0
           runLength == countRun(arr, 3, isDescending)
           run == IF isDescending THEN reverseRange(arr, runLength) ELSE arr
       IN  binaryInsertionLoop(run, runLength + 1)

\* [...todos].sort(comparator), lines 188-193, on the engine e
sortBy(e, todoList) ==
  IF e = "TimSort" THEN timSort(todoList) ELSE insertionSort(todoList)

\* ---- handlers -----------------------------------------------------------
\* const priorities, lines 46 and 52
priorities == <<"low", "normal", "urgent", "emergency">>

\* priorities.indexOf(p), 0-based as in the source
indexOf(p) == (CHOOSE k \in 1..Len(priorities) : priorities[k] = p) - 1

\* Math.min and Math.max, lines 40 and 42
Min(a, b) == IF a < b THEN a ELSE b
Max(a, b) == IF a > b THEN a ELSE b

\* keys the handler tells apart; "a" stands for every other key
Keys == {"Tab", "ArrowUp", "ArrowDown", "Backspace", "Enter", "a"}

\* what every handler leaves behind: the history, and the render that follows
\* the state change (sortedTodos is recomputed from the new store, line 188)
rendered(op, id, outcome) ==
  /\ before' = todos
  /\ last' = [op |-> op, id |-> id, outcome |-> outcome]
  /\ engine' = engine
  /\ sortedTodos' = sortBy(engine, todos')

\* a variant of addTodo without the setInputPriority('normal') of line 76,
\* used to show that the reset decides C12
addTodoKeepsPriority(now) ==
  IF trim(inputValue) = <<>>
  THEN UNCHANGED <<todos, inputValue, inputPriority, clock>>
  ELSE LET newTodo == [id |-> ToString(now),
                       text |-> trim(inputValue),
                       completed |-> FALSE,
                       depth |-> inputDepth,
                       priority |-> inputPriority]
       IN  /\ todos' = Append(todos, newTodo)
           /\ inputValue' = <<>>
           /\ inputPriority' = inputPriority
           /\ clock' = now

\* a variant of addTodo that stores the text as typed (no trim at line 68),
\* used to show that the trim decides C20
addTodoUntrimmed(now) ==
  IF trim(inputValue) = <<>>
  THEN UNCHANGED <<todos, inputValue, inputPriority, clock>>
  ELSE LET newTodo == [id |-> ToString(now),
                       text |-> inputValue,
                       completed |-> FALSE,
                       depth |-> inputDepth,
                       priority |-> inputPriority]
       IN  /\ todos' = Append(todos, newTodo)
           /\ inputValue' = <<>>
           /\ inputPriority' = "normal"
           /\ clock' = now

\* addTodo, lines 63-77; now is the value Date.now() returns
addTodo(now) ==
  IF trim(inputValue) = <<>>
  THEN UNCHANGED <<todos, inputValue, inputPriority, clock>>
  ELSE LET newTodo == [id |-> ToString(now),
                       text |-> trim(inputValue),
                       completed |-> FALSE,
                       depth |-> inputDepth,
                       priority |-> inputPriority]
       IN  /\ todos' = Append(todos, newTodo)
           /\ inputValue' = <<>>
           /\ inputPriority' = "normal"
           /\ clock' = now

\* the depth Tab selects, lines 39-43
tabDepthUnclamped(shiftKey, depth) ==
  IF shiftKey THEN Max(0, depth - 1) ELSE depth + 1

tabDepth(shiftKey, depth) ==
  IF shiftKey THEN Max(0, depth - 1) ELSE Min(2, depth + 1)

\* the condition under which Enter submits the draft, line 58
submitsWhileComposing(key, value, isComposing) ==
  key = "Enter" /\ trim(value) # <<>>

submits(key, value, isComposing) ==
  key = "Enter" /\ trim(value) # <<>> /\ ~isComposing

\* the priority ArrowUp selects, lines 46-49
upPriority(p) ==
  LET currentIndex == indexOf(p)
      nextIndex == (currentIndex + 1) % Len(priorities)
  IN  priorities[nextIndex + 1]

\* a variant of ArrowDown that stops at the first priority instead of
\* wrapping, used to show that the wrap of line 54 decides C15
downPriorityNoWrap(p) ==
  LET currentIndex == indexOf(p)
      prevIndex == IF currentIndex = 0 THEN 0 ELSE currentIndex - 1
  IN  priorities[prevIndex + 1]

\* the priority ArrowDown selects, lines 52-55
downPriority(p) ==
  LET currentIndex == indexOf(p)
      prevIndex == IF currentIndex = 0 THEN Len(priorities) - 1
                                       ELSE currentIndex - 1
  IN  priorities[prevIndex + 1]

\* handleKeyDown, lines 36-61
handleKeyDown(key, shiftKey, isComposing, now) ==
  /\ IF key = "Tab"
     THEN /\ inputDepth' = tabDepth(shiftKey, inputDepth)
          /\ UNCHANGED <<todos, inputValue, inputPriority, clock>>
     ELSE IF key = "ArrowUp"
     THEN /\ inputPriority' = upPriority(inputPriority)
          /\ UNCHANGED <<todos, inputValue, inputDepth, clock>>
     ELSE IF key = "ArrowDown"
     THEN /\ inputPriority' = downPriority(inputPriority)
          /\ UNCHANGED <<todos, inputValue, inputDepth, clock>>
     ELSE IF key = "Backspace" /\ inputValue = <<>> /\ inputDepth > 0
     THEN /\ inputDepth' = inputDepth - 1
          /\ UNCHANGED <<todos, inputValue, inputPriority, clock>>
     ELSE IF submits(key, inputValue, isComposing)
     THEN /\ addTodo(now)
          /\ UNCHANGED inputDepth
     ELSE UNCHANGED <<todos, inputValue, inputDepth, inputPriority, clock>>
  /\ rendered("handleKeyDown", "", "ok")

\* onChange={(e) => setInputValue(e.target.value)}, line 297
onChange(value) ==
  /\ inputValue' = value
  /\ UNCHANGED <<todos, inputDepth, inputPriority, clock>>
  /\ rendered("onChange", "", "ok")

\* toggleTodo, lines 79-92.  For an id no item has, findIndex gives -1,
\* clickedTodo is undefined and reading clickedTodo.completed (line 84)
\* throws a TypeError before setTodos is reached.
toggleTodo(id) ==
  /\ IF findIndex(todos, id) = 0
     THEN /\ UNCHANGED todos
          /\ rendered("toggleTodo", id, "TypeError")
     ELSE /\ todos' = toggled(todos, id)
          /\ rendered("toggleTodo", id, "ok")
  /\ UNCHANGED <<inputValue, inputDepth, inputPriority, clock>>

\* the render of a store that was loaded rather than built, line 188
render ==
  /\ last.op = "load"
  /\ UNCHANGED <<todos, inputValue, inputDepth, inputPriority, clock>>
  /\ rendered("render", "", "ok")

\* ---- specifications -----------------------------------------------------
\* the draft as useState sets it up, lines 17-19
InitDraft ==
  /\ inputValue = <<>>
  /\ inputDepth = 0
  /\ inputPriority = "normal"

\* the event history before any event, with the draft of lines 17-19
NoEvent ==
  [key |-> "", shiftKey |-> FALSE, isComposing |-> FALSE,
   value |-> <<>>, depth |-> 0, priority |-> "normal"]

\* the component after its first render, lines 15-19
Init ==
  /\ todos = <<>>
  /\ InitDraft
  /\ clock = 0
  /\ engine \in Engines
  /\ sortedTodos = <<>>
  /\ before = <<>>
  /\ last = [op |-> "init", id |-> "", outcome |-> "ok"]
  /\ keyed = NoEvent

\* the readings Date.now() can give next: the same millisecond or a later one
Nows == {n \in clock..(clock + 1) : n >= 1}

\* the ids a toggle is tried with: every id handed out, and one never handed out
ToggleIds == {ToString(n) : n \in 1..(clock + 1)}

\* the record of an event: the key ("" for a change of the text or a click
\* on a checkbox), its modifiers, and the draft as the handler found it
pressed(key, shiftKey, isComposing) ==
  keyed' = [key |-> key, shiftKey |-> shiftKey, isComposing |-> isComposing,
            value |-> inputValue, depth |-> inputDepth,
            priority |-> inputPriority]

\* every handler with every input
Next ==
  \/ \E key \in Keys \ {"Enter"}, shiftKey \in BOOLEAN :
       /\ handleKeyDown(key, shiftKey, FALSE, clock)
       /\ pressed(key, shiftKey, FALSE)
  \/ /\ Len(todos) < MaxTodos
     /\ \E isComposing \in BOOLEAN, now \in Nows :
          /\ handleKeyDown("Enter", FALSE, isComposing, now)
          /\ pressed("Enter", FALSE, isComposing)
  \/ \E value \in Texts : onChange(value) /\ pressed("", FALSE, FALSE)
  \/ \E id \in ToggleIds : toggleTodo(id) /\ pressed("", FALSE, FALSE)

Spec == Init /\ [][Next]_vars

\* commits at every depth and toggles: the draft text is "a", the priority
\* the default one (toggleTodo reads neither), and every commit happens in a
\* millisecond of its own
NextTree ==
  \/ /\ \E shiftKey \in BOOLEAN : handleKeyDown("Tab", shiftKey, FALSE, clock)
     /\ UNCHANGED keyed
  \/ /\ Len(todos) < MaxTree
     /\ handleKeyDown("Enter", FALSE, FALSE, clock + 1)
     /\ UNCHANGED keyed
  \/ onChange(<<"a">>) /\ UNCHANGED keyed
  \/ /\ \E id \in ToggleIds : toggleTodo(id)
     /\ UNCHANGED keyed

SpecTree == Init /\ [][NextTree]_vars

\* root items committed in the same millisecond or a later one, and toggles
NextClock ==
  \/ onChange(<<"a">>) /\ UNCHANGED keyed
  \/ /\ Len(todos) < MaxTree
     /\ \E now \in Nows : handleKeyDown("Enter", FALSE, FALSE, now)
     /\ UNCHANGED keyed
  \/ /\ \E id \in ToggleIds : toggleTodo(id)
     /\ UNCHANGED keyed

SpecClock == Init /\ [][NextClock]_vars

\* the items a commit can append, by depth and priority
Drawn(n) ==
  {[i \in 1..n |-> [id |-> ToString(i), text |-> <<"a">>, completed |-> FALSE,
                    depth |-> d[i], priority |-> p[i]]] :
     d \in [1..n -> Depths], p \in [1..n -> Priority]}

\* a store of up to MaxLen committed items, not yet rendered
InitSort ==
  /\ \E n \in 0..MaxLen : /\ todos \in Drawn(n)
                          /\ clock = n
  /\ InitDraft
  /\ engine \in Engines
  /\ sortedTodos = <<>>
  /\ before = <<>>
  /\ last = [op |-> "load", id |-> "", outcome |-> "ok"]
  /\ keyed = NoEvent

NextSort == render /\ UNCHANGED keyed

SpecSort == InitSort /\ [][NextSort]_vars

\* ---- vocabulary of the properties ---------------------------------------
\* the last handler was a toggle that found its item
Toggled == last.op = "toggleTodo" /\ last.outcome = "ok"

\* position of the item the last toggle was aimed at
Target == findIndex(before, last.id)

\* descendants of item i: the run after i of items deeper than i
Descendants(s, i) ==
  {j \in (i + 1)..Len(s) : \A k \in (i + 1)..j : s[k].depth > s[i].depth}

\* direct children of item i: its descendants exactly one level deeper
DirectChildren(s, i) == {j \in Descendants(s, i) : s[j].depth = s[i].depth + 1}

\* item i is a parent whose flag agrees with its direct children
Consistent(s, i) ==
  DirectChildren(s, i) # {} =>
    (s[i].completed <=> \A j \in DirectChildren(s, i) : s[j].completed)

\* ---- C1 -----------------------------------------------------------------
\* C1: after a toggle of an incomplete item, every descendant of the item
\* (the run of deeper items that follows it) is completed.
C1_DownwardCascade ==
  (Toggled /\ ~before[Target].completed) =>
    \A j \in Descendants(before, Target) : todos[j].completed

\* ---- C2 -----------------------------------------------------------------
\* C2: right after a toggle of an existing id, every item of depth < 2 with at
\* least one direct child is completed exactly when all its direct children are.
C2_UpwardComplete ==
  Toggled => \A i \in 1..Len(todos) : todos[i].depth < 2 => Consistent(todos, i)

\* a grandchild of a completed tree was un-completed, and both its parent and
\* the root went incomplete in that toggle while its sibling stayed completed
C2_Witness ==
  /\ Toggled
  /\ before[Target].depth = 2
  /\ before[Target].completed
  /\ \E r \in 1..Len(todos), p \in 1..Len(todos) :
       /\ todos[r].depth = 0
       /\ p \in DirectChildren(todos, r)
       /\ Target \in DirectChildren(todos, p)
       /\ before[r].completed /\ before[p].completed
       /\ ~todos[r].completed /\ ~todos[p].completed /\ ~todos[Target].completed
       /\ \E sibling \in DirectChildren(todos, p) \ {Target} :
            before[sibling].completed /\ todos[sibling].completed

\* ---- C3 -----------------------------------------------------------------
\* C3: the toggled item's flag after the toggle is the negation of its flag
\* before the toggle.
C3_ToggleFlips ==
  Toggled => (todos[Target].completed = ~before[Target].completed)

\* ---- C4 -----------------------------------------------------------------
\* C4: a toggle of a completed item leaves the flag of each of its
\* descendants as it was.
C4_NoCascadeOnUncomplete ==
  (Toggled /\ before[Target].completed) =>
    \A j \in Descendants(before, Target) :
      todos[j].completed = before[j].completed

\* ---- C5 -----------------------------------------------------------------
\* C5: a toggle of an id no item has ends without an error and leaves the
\* store as it was.
C5_AbsentIdNoOp ==
  (last.op = "toggleTodo" /\ findIndex(before, last.id) = 0) =>
    (last.outcome = "ok" /\ todos = before)

\* ---- C6 -----------------------------------------------------------------
\* C6: in every reachable store, every item with a direct child is completed
\* exactly when all its direct children are.
C6_ConsistentStore ==
  \A i \in 1..Len(todos) : Consistent(todos, i)

\* ---- vocabulary of the display properties -------------------------------
\* the view on the screen was computed from the store
Shown == last.op # "load"

\* position in the view of the item that is at position i of the store
Pos(i) == CHOOSE k \in 1..Len(sortedTodos) : sortedTodos[k].id = todos[i].id

\* priority rank of an item: emergency=0 < urgent=1 < normal=2 < low=3
Rank(t) ==
  CASE t.priority = "emergency" -> 0
    [] t.priority = "urgent" -> 1
    [] t.priority = "normal" -> 2
    [] t.priority = "low" -> 3

\* the greatest element of a non-empty set of positions
Greatest(S) == CHOOSE m \in S : \A x \in S : x <= m

\* id of the parent of the item at position k of s: the nearest preceding item
\* one level up, "none" when there is none
ParentId(s, k) ==
  LET ups == {q \in 1..(k - 1) : s[q].depth = s[k].depth - 1}
  IN  IF ups = {} THEN "none" ELSE s[Greatest(ups)].id

\* ---- C7 -----------------------------------------------------------------
\* C7: of two items of equal depth the one of lower priority rank is shown
\* first, whatever lies between them in the store, and two of equal rank are
\* shown in store order.
C7_SortedWithinDepth ==
  Shown =>
    \A i, j \in 1..Len(todos) :
      (/\ todos[i].depth = todos[j].depth
       /\ \/ Rank(todos[i]) < Rank(todos[j])
          \/ (Rank(todos[i]) = Rank(todos[j]) /\ i < j))
      => Pos(i) < Pos(j)

\* ---- C8 -----------------------------------------------------------------
\* C8: two items of different depth are shown in their store order.
C8_NoReorderAcrossDepths ==
  Shown =>
    \A i, j \in 1..Len(todos) :
      (i < j /\ todos[i].depth # todos[j].depth) => Pos(i) < Pos(j)

\* ---- C9 -----------------------------------------------------------------
\* C9: every item has the same parent in the view as in the store.
C9_HierarchyPreserved ==
  Shown =>
    \A i \in 1..Len(todos) : ParentId(sortedTodos, Pos(i)) = ParentId(todos, i)

\* ---- C10 ----------------------------------------------------------------
\* C10: sorting the view again gives the view.
C10_Idempotent ==
  Shown => sortBy(engine, sortedTodos) = sortedTodos

\* a store whose items of several depths the sort did reorder, sorted again
\* to the same view
C10_Witness ==
  /\ last.op = "render"
  /\ sortedTodos # todos
  /\ \E i, j \in 1..Len(todos) : todos[i].depth # todos[j].depth
  /\ \E i, j \in 1..Len(todos) : i < j /\ Pos(j) < Pos(i)
  /\ sortBy(engine, sortedTodos) = sortedTodos

\* ---- C11 ----------------------------------------------------------------
\* C11: the ids of the items of the store are pairwise distinct.
C11_UniqueIds ==
  \A i, j \in 1..Len(todos) : i # j => todos[i].id # todos[j].id

\* ---- C16 ----------------------------------------------------------------
\* the store of the last toggle after the flip and the downward cascade, as
\* the upward pass received it
Cascaded ==
  LET flipped == [before EXCEPT ![Target].completed = ~before[Target].completed]
  IN  IF flipped[Target].completed
      THEN updateChildrenCompletion(flipped, Target, TRUE)
      ELSE flipped

\* C16: a toggle that un-completes an item changes the flag of no other item
\* without direct children, and the upward pass of a toggle changes no item
\* without direct children.
C16_ChildlessUntouched ==
  Toggled =>
    /\ (before[Target].completed /\ ~todos[Target].completed) =>
         \A j \in 1..Len(before) :
           (j # Target /\ DirectChildren(before, j) = {}) =>
             todos[j].completed = before[j].completed
    /\ \A j \in 1..Len(before) :
         DirectChildren(before, j) = {} =>
           todos[j].completed = Cascaded[j].completed

\* a completed leaf was un-completed and its completed sibling leaf stayed so
C16_Witness ==
  /\ Toggled
  /\ before[Target].completed /\ ~todos[Target].completed
  /\ DirectChildren(before, Target) = {}
  /\ \E p \in 1..Len(before) :
       /\ Target \in DirectChildren(before, p)
       /\ \E sibling \in DirectChildren(before, p) \ {Target} :
            /\ DirectChildren(before, sibling) = {}
            /\ before[sibling].completed /\ todos[sibling].completed

\* ---- C17 ----------------------------------------------------------------
\* C17: every item of depth d > 0 has a parent: an earlier item of depth d-1
\* with no item of depth < d-1 in between.
C17_WellFormedForest ==
  \A i \in 1..Len(todos) :
    todos[i].depth > 0 =>
      \E p \in 1..(i - 1) :
        /\ todos[p].depth = todos[i].depth - 1
        /\ \A k \in (p + 1)..(i - 1) : todos[k].depth >= todos[i].depth - 1

\* ---- C18 ----------------------------------------------------------------
\* id, text, depth and priority of an item
Fields(t) == <<t.id, t.text, t.depth, t.priority>>

\* C18: a toggle keeps the number of items and the id, text, depth and
\* priority of each; no handler removes an item or changes those fields of an
\* item, and a handler adds at most one item.
C18_OnlyFlagsChange ==
  /\ Len(before) <= Len(todos) /\ Len(todos) <= Len(before) + 1
  /\ \A i \in 1..Len(before) : Fields(todos[i]) = Fields(before[i])
  /\ last.op = "toggleTodo" => Len(todos) = Len(before)

\* a toggle whose cascade and upward pass changed the flags of three items
C18_Witness ==
  /\ Toggled
  /\ Cardinality({i \in 1..Len(todos) :
                    todos[i].completed # before[i].completed}) >= 3
  /\ \A i \in 1..Len(before) : Fields(todos[i]) = Fields(before[i])

\* ---- C19 ----------------------------------------------------------------
\* how many times the item t occurs in the sequence s
Count(s, t) == Cardinality({k \in 1..Len(s) : s[k] = t})

\* C19: the render leaves the store as it was, and the view holds every item
\* of the store exactly as often as the store, with all its fields.
C19_PureView ==
  Shown =>
    /\ last.op = "render" => todos = before
    /\ Len(sortedTodos) = Len(todos)
    /\ \A i \in 1..Len(todos) :
         Count(sortedTodos, todos[i]) = Count(todos, todos[i])

\* a render that reordered three or more items
C19_Witness ==
  /\ last.op = "render"
  /\ todos = before
  /\ Cardinality({i \in 1..Len(todos) : sortedTodos[i] # todos[i]}) >= 3
  /\ \A i \in 1..Len(todos) :
       Count(sortedTodos, todos[i]) = Count(todos, todos[i])

\* ---- vocabulary of the draft properties ---------------------------------
\* the priority one step forward in low, normal, urgent, emergency, wrapping
Forward(p) ==
  CASE p = "low" -> "normal"
    [] p = "normal" -> "urgent"
    [] p = "urgent" -> "emergency"
    [] p = "emergency" -> "low"

\* the priority one step backward, wrapping
Backward(p) ==
  CASE p = "low" -> "emergency"
    [] p = "normal" -> "low"
    [] p = "urgent" -> "normal"
    [] p = "emergency" -> "urgent"

\* the draft is as the last event found it
DraftUnchanged ==
  /\ inputValue = keyed.value
  /\ inputDepth = keyed.depth
  /\ inputPriority = keyed.priority

\* the text has a character that is not a blank
NonBlank(value) == \E k \in 1..Len(value) : value[k] # " "

C13_RejectedSubmit ==
  (keyed.key = "Enter" /\ (~NonBlank(keyed.value) \/ keyed.isComposing)) =>
    (todos = before /\ DraftUnchanged)

\* Enter during a composition, on a text that would otherwise be committed
C13_Witness ==
  /\ keyed.key = "Enter" /\ keyed.isComposing /\ NonBlank(keyed.value)
  /\ keyed.depth > 0 /\ keyed.priority # "normal"
  /\ todos = before /\ DraftUnchanged

\* ---- C14 ----------------------------------------------------------------
\* C14: the draft depth is 0, 1 or 2; Tab makes it min(2, depth+1), Shift+Tab
\* max(0, depth-1), Backspace depth-1 when the text is empty and depth > 0,
\* and nothing else changes it.
C14_DepthClamped ==
  /\ inputDepth \in {0, 1, 2}
  /\ (keyed.key = "Tab" /\ ~keyed.shiftKey) =>
       inputDepth = (IF keyed.depth >= 2 THEN 2 ELSE keyed.depth + 1)
  /\ (keyed.key = "Tab" /\ keyed.shiftKey) =>
       inputDepth = (IF keyed.depth <= 0 THEN 0 ELSE keyed.depth - 1)
  /\ keyed.key = "Backspace" =>
       inputDepth = (IF keyed.value = <<>> /\ keyed.depth > 0
                     THEN keyed.depth - 1 ELSE keyed.depth)
  /\ keyed.key \notin {"Tab", "Backspace"} => inputDepth = keyed.depth

\* Tab at depth 2: the depth stays 2
C14_Witness ==
  /\ keyed.key = "Tab" /\ ~keyed.shiftKey
  /\ keyed.depth = 2
  /\ inputDepth = 2

\* ---- C15 ----------------------------------------------------------------
\* C15: ArrowUp moves the draft priority one step forward and ArrowDown one
\* step backward in low, normal, urgent, emergency, wrapping at both ends;
\* the other arrow pressed next restores the priority, four presses of the
\* same arrow restore it, and text, depth and store are left alone.
C15_PriorityCycle ==
  /\ keyed.key = "ArrowUp" =>
       /\ inputPriority = Forward(keyed.priority)
       /\ downPriority(inputPriority) = keyed.priority
       /\ upPriority(upPriority(upPriority(inputPriority))) = keyed.priority
  /\ keyed.key = "ArrowDown" =>
       /\ inputPriority = Backward(keyed.priority)
       /\ upPriority(inputPriority) = keyed.priority
       /\ downPriority(downPriority(downPriority(inputPriority))) = keyed.priority
  /\ keyed.key \in {"ArrowUp", "ArrowDown"} =>
       /\ inputValue = keyed.value
       /\ inputDepth = keyed.depth
       /\ todos = before

\* ArrowDown on low wrapped to emergency, beside a text, a depth and an item
C15_Witness ==
  /\ keyed.key = "ArrowDown"
  /\ keyed.priority = "low" /\ inputPriority = "emergency"
  /\ inputValue # <<>> /\ inputDepth > 0 /\ todos # <<>>
  /\ todos = before

\* ---- C20 ----------------------------------------------------------------
\* C20: every item of the store has a depth of 0, 1 or 2, one of the four
\* priorities, and a text that is not empty and neither starts nor ends with
\* a blank.
C20_DataModel ==
  \A i \in 1..Len(todos) :
    /\ todos[i].depth \in {0, 1, 2}
    /\ todos[i].priority \in {"emergency", "urgent", "normal", "low"}
    /\ todos[i].text # <<>>
    /\ todos[i].text[1] # " "
    /\ todos[i].text[Len(todos[i].text)] # " "

\* an item just committed at depth 2 from a text with a blank at its start
C20_Witness ==
  /\ keyed.key = "Enter" /\ ~keyed.isComposing
  /\ Len(keyed.value) > 1 /\ keyed.value[1] = " "
  /\ keyed.depth = 2 /\ keyed.priority = "low"
  /\ Len(todos) = Len(before) + 1
  /\ todos[Len(todos)].text = <<"a">>
  /\ todos[Len(todos)].depth = 2
  /\ todos[Len(todos)].priority = "low"

====
